---- MODULE Spec2Model ----
(***************************************************************************)
(* A model of the consensus core of the thor node: the fork-aware block    *)
(* repository (chain/repository.go), the round loop of the packer          *)
(* (node/packer_loop.go) and the finality tracker (bft).                   *)
(***************************************************************************)
EXTENDS Integers, Sequences, FiniteSets, TLC

(***************************************************************************)
(* Bounds of the model.                                                    *)
(***************************************************************************)
\* blocks other than genesis that are ever built and offered to AddBlock, where
\* the blocks carry no transactions (the fork trees)
MaxBlocks == 3
\* the same, where blocks carry transactions and the caches drop entries
MaxStored == 1
\* the same, where calls meet faults of the storage
MaxFaulty == 1
\* transactions carried by a block that carries transactions
MaxTxs == 2
\* blocks that carry transactions
MaxTxBlocks == 1
\* waiters created by NewTicker
MaxWaiters == 2
\* calls that meet a fault of the storage
MaxFaults == 1
\* flows that Schedule returns over a run of the packer loop
MaxFlows == 2
\* rounds of BlockInterval seconds that the clock of the packer loop runs through
MaxRounds == 2
\* blocks that become the best block while the packer loop runs
MaxHeads == 1
\* blocks after genesis that are fed to the finality tracker
MaxChain == 7
\* thor.CommitteeSize, scaled down
CommitteeSize == 2
\* transactions that come into the transaction pool
MaxPool == 3
\* timer goroutines of packTxSetAndBlockSummary that there are at a time
MaxTimers == 3
\* goroutines that call SetBestBlockID at the same time
MaxCallers == 2
\* thor.MaxBlockProposers, scaled down
MaxBlockProposers == 5
\* thor.CommitteeThresholdFactor, scaled down
CommitteeThresholdFactor == 2
\* thor.EpochInterval, scaled down
EpochInterval == 2
\* private keys of the verifiable random function
MaxKeys == 3
\* the greatest seed (a thor.Bytes32, scaled down)
MaxSeed == 31
\* epochs that the timestamps given to EpochNumber run through
MaxEpochs == 2

\* rounds without a block between a block and its parent
MaxSkip == 1

\* thor.BlockInterval, in seconds
BlockInterval == 10

VARIABLES
    blocks,     \* the blocks built so far (the callers' side; ids are content hashes)
    data,       \* Repository.data: the store of immutable chain records
    props,      \* Repository.props: the value under bestBlockIDKey
    best,       \* Repository.best: the atomically swapped best block
    caches,     \* Repository.caches: summaries, txs, receipts, bss
    waiters,    \* Repository.tick: one flag per waiter, TRUE when signalled
    ret,        \* the last call of the repository's API and what it returned
    added,      \* for each id that AddBlock has added without error, the
                \* receipts of the last such call
    faults      \* the calls that have met a fault of the storage so far

repoVars == <<blocks, data, props, best, caches, waiters, ret, added, faults>>

VARIABLES
    flow,       \* packerLoop: the flow held, or NoFlow for nil
    activated,  \* packerLoop: the flag set when the flow starts to pack
    lbs,        \* packerLoop: the local copy of the latest block summary, or NoSummary
    now,        \* the clock, in seconds
    bestID,     \* the id of the best block as the packer loop reads it
    scheduled,  \* the flows that Schedule has returned so far
    packed,     \* for each flow, the times flow.Pack has returned without error
    committed,  \* for each flow, the times commitBlock was called with its block
    halted,     \* the loop has panicked
    endorsed,   \* the block summaries that the node has signed endorsements of
    last        \* what the loop did in its last pass

packerVars == <<flow, activated, lbs, now, bestID, scheduled, packed, committed, halted,
                endorsed, last>>

VARIABLES
    state,      \* Consensus.state: the ids NV, PP, PC, CM, FN
    head,       \* the block that Update was last called with
    view,       \* the view of the chain that ends at head
    fed         \* what the chain fed so far has done: the updates whose view had
                \* quorum, those whose head completed the quorum of the view
                \* of its parent, and whether a head has carried a CM

bftVars == <<state, head, view, fed>>

VARIABLES
    txPool,     \* the transactions in the transaction pool
    adopting    \* the last call of packTxSetAndBlockSummary: the pool it found,
                \* and each transaction it passed to flow.Adopt with the
                \* error that came back

poolVars == <<txPool, adopting>>

VARIABLES
    role        \* the last call of a function of consensus/role.go or of the
                \* validation of an endorsement: its arguments and what it
                \* returned

roleVars == <<role>>

VARIABLES
    callers     \* for each goroutine that calls SetBestBlockID: where it is in
                \* the call, and the block it has read

raceVars == <<callers>>

VARIABLES
    packing,    \* where packTxSetAndBlockSummary is in its call: the statement
                \* it is at, the executables it has not tried yet, and its
                \* timer goroutine
    timers      \* for each timer goroutine there may be at a time: free (not
                \* started, or over), sleeping, or sending on its channel

timerVars == <<packing, timers>>

vars == <<repoVars, packerVars, bftVars, poolVars, roleVars, raceVars, timerVars>>

(***************************************************************************)
(* Block ids.  An id is a content hash whose first four bytes hold the     *)
(* block number: here number * Width + tag.                                *)
(***************************************************************************)
ZeroID == 0

Width == MaxBlocks + 2

\* block.Number(id): the number stored in the first bytes of the id
Number(id) == id \div Width

MakeID(n, t) == n * Width + t

GenesisID == MakeID(0, 1)

\* the id of a block of number 0 that is no block of this chain
ForeignID == MakeID(0, 2)

\* the transactions, receipts and backer signatures of the block with this id
TxOf(id, i) == <<"tx", id, i>>

ReceiptOf(id, i) == <<"rc", id, i>>

TxsOf(id, n) == [i \in 1..n |-> TxOf(id, i - 1)]

ReceiptsOf(id, n) == [i \in 1..n |-> ReceiptOf(id, i - 1)]

BssOf(id) == <<<<"sig", id>>>>

\* a block: its header's id, parent id and timestamp, its transactions and
\* its backer signatures
MakeBlock(id, parent, n, ts) ==
    [id |-> id, parent |-> parent, ts |-> ts, txs |-> TxsOf(id, n), bss |-> BssOf(id)]

\* the timestamp of the genesis block: the launch time, after the epoch
GenesisTimestamp == 2 * BlockInterval

GenesisBlock == MakeBlock(GenesisID, ZeroID, 0, GenesisTimestamp)

\* tx.ID()
TxID(tx) == tx

NoCall == [op |-> "none", id |-> ZeroID, id2 |-> ZeroID, out |-> "nil"]

Call(op, id, out) == [op |-> op, id |-> id, id2 |-> ZeroID, out |-> out]

(***************************************************************************)
(* The key-value store and the caches.                                     *)
(***************************************************************************)
Empty == [k \in {} |-> TRUE]

Put(f, k, v) == (k :> v) @@ f

Remove(f, k) == [x \in (DOMAIN f) \ {k} |-> f[x]]

\* cache.GetOrLoad: the cached value if any, else the stored one, which is cached
Has(c, s, k) == k \in DOMAIN c \/ k \in DOMAIN s

Get(c, s, k) == IF k \in DOMAIN c THEN c[k] ELSE s[k]

Loaded(c, s, k) == IF k \notin DOMAIN c /\ k \in DOMAIN s THEN Put(c, k, s[k]) ELSE c

(***************************************************************************)
(* Reads.  Each read goes through a cache with GetOrLoad; a read is given  *)
(* as its result (..Res) and as the caches it leaves (..Cache).            *)
(***************************************************************************)
Ok(v) == [err |-> "nil", val |-> v]

Err(e) == [err |-> e, val |-> <<>>]

\* Repository.GetBlockSummary
HasSummary(c, d, id) == Has(c.summaries, d.summaries, id)

SummaryOf(c, d, id) == Get(c.summaries, d.summaries, id)

GetBlockSummaryCache(c, d, id) ==
    [c EXCEPT !.summaries = Loaded(c.summaries, d.summaries, id)]

\* the first index below n whose record (id, i) is in neither cf nor df, or n
FirstMissing(cf, df, id, n) ==
    IF \E i \in 0..(n - 1) : ~Has(cf, df, <<id, i>>)
    THEN CHOOSE i \in 0..(n - 1) :
            /\ ~Has(cf, df, <<id, i>>)
            /\ \A j \in 0..(i - 1) : Has(cf, df, <<id, j>>)
    ELSE n

\* the loop over getTransaction / getReceipt: records 0..n-1 of block id, in order
GetIndexed(cf, df, id, n) == [i \in 1..n |-> Get(cf, df, <<id, i - 1>>)]

LoadIndexed(cf, df, id, n) ==
    LET m == FirstMissing(cf, df, id, n)
        ks == (DOMAIN cf) \cup {<<id, i>> : i \in 0..(m - 1)}
    IN [k \in ks |-> IF k \in DOMAIN cf THEN cf[k] ELSE df[k]]

\* Repository.GetBlockTransactions
GetBlockTransactionsRes(c, d, id) ==
    IF ~HasSummary(c, d, id) THEN Err("not found")
    ELSE LET n == Len(SummaryOf(c, d, id).txs)
         IN IF FirstMissing(c.txs, d.txs, id, n) < n THEN Err("not found")
            ELSE Ok(GetIndexed(c.txs, d.txs, id, n))

GetBlockTransactionsCache(c, d, id) ==
    IF ~HasSummary(c, d, id) THEN c
    ELSE LET n == Len(SummaryOf(c, d, id).txs)
         IN [GetBlockSummaryCache(c, d, id) EXCEPT
                !.txs = LoadIndexed(c.txs, d.txs, id, n)]

\* Repository.GetBlockReceipts
GetBlockReceiptsRes(c, d, id) ==
    IF ~HasSummary(c, d, id) THEN Err("not found")
    ELSE LET n == Len(SummaryOf(c, d, id).txs)
         IN IF FirstMissing(c.receipts, d.receipts, id, n) < n THEN Err("not found")
            ELSE Ok(GetIndexed(c.receipts, d.receipts, id, n))

GetBlockReceiptsCache(c, d, id) ==
    IF ~HasSummary(c, d, id) THEN c
    ELSE LET n == Len(SummaryOf(c, d, id).txs)
         IN [GetBlockSummaryCache(c, d, id) EXCEPT
                !.receipts = LoadIndexed(c.receipts, d.receipts, id, n)]

\* Repository.GetBlockBackerSignatures: a missing record reads as no signatures
GetBlockBackerSignaturesRes(c, d, id) ==
    IF Has(c.bss, d.bss, id) THEN Ok(Get(c.bss, d.bss, id)) ELSE Ok(<<>>)

GetBlockBackerSignaturesCache(c, d, id) ==
    IF id \in DOMAIN c.bss THEN c
    ELSE [c EXCEPT !.bss = Put(c.bss, id, GetBlockBackerSignaturesRes(c, d, id).val)]

\* block.Compose
Compose(header, txs, bss) ==
    [id |-> header.id, parent |-> header.parent, ts |-> header.ts, txs |-> txs,
     bss |-> bss]

\* Repository.GetBlock
GetBlockRes(c, d, id) ==
    IF ~HasSummary(c, d, id) THEN Err("not found")
    ELSE LET txs == GetBlockTransactionsRes(c, d, id)
         IN IF txs.err # "nil" THEN txs
            ELSE Ok(Compose(SummaryOf(c, d, id).header, txs.val,
                            GetBlockBackerSignaturesRes(c, d, id).val))

GetBlockCache(c, d, id) ==
    IF GetBlockTransactionsRes(c, d, id).err # "nil"
    THEN GetBlockTransactionsCache(c, d, id)
    ELSE GetBlockBackerSignaturesCache(GetBlockTransactionsCache(c, d, id), d, id)

\* Chain.HasBlock on the chain whose head is headID: the index root of the head
\* maps each number of the chain to the id of its block
HasBlock(c, d, headID, id) ==
    LET root == SummaryOf(c, d, headID).indexRoot
    IN Number(id) < Len(root) /\ root[Number(id) + 1] = id

\* IfConflict asking the chain of b2 for b1, whichever of the two is higher
IfConflictResUnordered(c, d, b1, b2) ==
    IF ~HasSummary(c, d, b1) THEN FALSE
    ELSE IF ~HasSummary(c, d, b2) THEN FALSE
    ELSE IF b1 = b2 THEN FALSE
    ELSE IF Number(b1) = Number(b2) THEN TRUE
    ELSE ~HasBlock(c, d, b2, b1)

\* Repository.IfConflict
IfConflictRes(c, d, b1, b2) ==
    IF ~HasSummary(c, d, b1) THEN FALSE
    ELSE IF ~HasSummary(c, d, b2) THEN FALSE
    ELSE IF b1 = b2 THEN FALSE
    ELSE IF Number(b1) = Number(b2) THEN TRUE
    ELSE LET low == IF Number(b1) > Number(b2) THEN b2 ELSE b1
             high == IF Number(b1) > Number(b2) THEN b1 ELSE b2
         IN ~HasBlock(c, d, high, low)

IfConflictCache(c, d, b1, b2) ==
    IF ~HasSummary(c, d, b1) THEN c
    ELSE GetBlockSummaryCache(GetBlockSummaryCache(c, d, b1), d, b2)

\* the ids of a set as a list in the order of the keys of the store
RECURSIVE InKeyOrder(_)
InKeyOrder(ids) ==
    IF ids = {} THEN <<>>
    ELSE LET least == CHOOSE x \in ids : \A y \in ids : x <= y
         IN <<least>> \o InKeyOrder(ids \ {least})

\* the elements of a list that are in a set, in the order of the list
RECURSIVE Filter(_, _)
Filter(seq, keep) ==
    IF seq = <<>> THEN <<>>
    ELSE (IF Head(seq) \in keep THEN <<Head(seq)>> ELSE <<>>) \o Filter(Tail(seq), keep)

\* loadBranchHeads: the recorded branch heads whose number is not below minNum
loadBranchHeads(d, minNum) ==
    InKeyOrder({h \in DOMAIN d.heads : Number(h) >= minNum})

\* the summaries of the heads, in their order up to the first one not found,
\* loaded into the cache
RECURSIVE LoadSummaries(_, _, _)
LoadSummaries(c, d, heads) ==
    IF heads = <<>> \/ ~HasSummary(c, d, Head(heads)) THEN c
    ELSE LoadSummaries(GetBlockSummaryCache(c, d, Head(heads)), d, Tail(heads))

\* GetBranchesByID without the test of Chain.HasBlock
GetBranchesByIDAll(c, d, id) ==
    LET heads == loadBranchHeads(d, Number(id))
    IN IF \E i \in 1..Len(heads) : ~HasSummary(c, d, heads[i])
       THEN Err("not found")
       ELSE Ok(heads)

\* Repository.GetBranchesByID: the heads of the chains that have the block,
\* each chain named by its head
GetBranchesByIDRes(c, d, id) ==
    LET heads == loadBranchHeads(d, Number(id))
    IN IF \E i \in 1..Len(heads) : ~HasSummary(c, d, heads[i])
       THEN Err("not found")
       ELSE Ok(Filter(heads, {h \in DOMAIN d.heads : HasBlock(c, d, h, id)}))

\* the widths of uint64 and uint32, scaled down
Uint64 == 2 ^ 12

Uint32 == 2 ^ 6

\* the least block number that GetBranchesByTimestamp asks loadBranchHeads for
MinNum(ts) == (((ts - GenesisTimestamp) % Uint64) \div BlockInterval) % Uint32

\* Repository.GetBranchesByTimestamp
GetBranchesByTimestampRes(c, d, ts) ==
    LET heads == loadBranchHeads(d, MinNum(ts))
    IN IF \E i \in 1..Len(heads) : ~HasSummary(c, d, heads[i])
       THEN Err("not found")
       ELSE Ok(Filter(heads, {h \in DOMAIN d.heads :
                                SummaryOf(c, d, h).header.ts > ts}))

(***************************************************************************)
(* Writes.                                                                 *)
(***************************************************************************)
\* Repository.indexBlock: the index root of a block layers the block's id, at
\* the block's number, on the index root of its parent
indexBlock(parentIndexRoot, newBlock) == Append(parentIndexRoot, newBlock.id)

\* saveBlock without key.SetIndex in the loop over the receipts
SaveStepsOneKey(block, receipts, indexRoot) ==
    LET id == block.id
        n == Len(block.txs)
        summary == [header |-> [id |-> id, parent |-> block.parent, ts |-> block.ts],
                    indexRoot |-> indexRoot,
                    txs |-> [i \in 1..n |-> TxID(block.txs[i])]]
        txSteps == [i \in 1..n |->
                       [kind |-> "txs", key |-> <<id, i - 1>>, val |-> block.txs[i]]]
        rcSteps == IF n > 0
                   THEN [i \in 1..Len(receipts) |->
                            [kind |-> "receipts", key |-> <<id, 0>>,
                             val |-> receipts[i]]]
                   ELSE <<>>
    IN txSteps \o rcSteps
         \o <<[kind |-> "bss", key |-> id, val |-> block.bss]>>
         \o <<[kind |-> "summaries", key |-> id, val |-> summary]>>

\* the puts of the closure that saveBlock hands to data.Batch, in its order;
\* each put is followed by the Add of the same record to the cache of its kind
SaveSteps(block, receipts, indexRoot) ==
    LET id == block.id
        n == Len(block.txs)
        summary == [header |-> [id |-> id, parent |-> block.parent, ts |-> block.ts],
                    indexRoot |-> indexRoot,
                    txs |-> [i \in 1..n |-> TxID(block.txs[i])]]
        txSteps == [i \in 1..n |->
                       [kind |-> "txs", key |-> <<id, i - 1>>, val |-> block.txs[i]]]
        rcSteps == IF n > 0
                   THEN [i \in 1..Len(receipts) |->
                            [kind |-> "receipts", key |-> <<id, i - 1>>,
                             val |-> receipts[i]]]
                   ELSE <<>>
    IN txSteps \o rcSteps
         \o <<[kind |-> "bss", key |-> id, val |-> block.bss]>>
         \o <<[kind |-> "summaries", key |-> id, val |-> summary]>>

\* the first n records of steps put into f, a record of maps by kind
RECURSIVE PutAll(_, _, _)
PutAll(f, steps, n) ==
    IF n = 0 THEN f
    ELSE LET s == steps[n]
             g == PutAll(f, steps, n - 1)
         IN [g EXCEPT ![s.kind] = Put(g[s.kind], s.key, s.val)]

\* the faults a call of AddBlock can meet: none, the read of the parent summary
\* fails, indexBlock fails, the k-th put of the batch fails, the commit fails
Faults(steps) ==
    {[at |-> a, n |-> 0] : a \in {"none", "load", "index", "commit"}}
        \cup {[at |-> "put", n |-> k] : k \in 1..Len(steps)}

\* the caches after saveBlock: the closure has added every record whose put
\* came back without error
SaveBlockCache(c, steps, fault) ==
    PutAll(c, steps, IF fault.at = "put" THEN fault.n - 1 ELSE Len(steps))

\* the store after saveBlock: data.Batch writes all the puts or none
SaveBlockData(d, steps, fault) ==
    IF fault.at = "none" THEN PutAll(d, steps, Len(steps)) ELSE d

\* isBranchHead: the id is a key of the branch-head records
isBranchHead(d, id) == id \in DOMAIN d.heads

\* saveBranchHead: the record of the old head, if one is named, is rewritten
\* into the record of the new head, which maps to the old head
saveBranchHead(d, newHead, oldHead) ==
    [d EXCEPT !.heads = Put(IF oldHead # ZeroID THEN Remove(d.heads, oldHead) ELSE d.heads,
                            newHead, oldHead)]

\* the branch head written as that of a new branch whatever the parent is
WriteBranchHeadNew(d, id, pid) == saveBranchHead(d, id, ZeroID)

\* the end of AddBlock: the branch head moves from the parent to the new
\* block if the parent is a branch head, else the new block heads a new branch
WriteBranchHead(d, id, pid) ==
    IF isBranchHead(d, pid)
    THEN saveBranchHead(d, id, pid)
    ELSE saveBranchHead(d, id, ZeroID)

\* the error of GetBlockSummary handed on as it is
ErrNotFound == "not found"

\* errors.New("parent missing")
ErrParentMissing == "parent missing"

\* Repository.AddBlock
AddBlock(newBlock, receipts, fault) ==
    LET pid == newBlock.parent
        id == newBlock.id
    IN
    /\ blocks' = blocks \cup {newBlock}
    /\ UNCHANGED <<props, best, waiters>>
    /\ IF fault.at = "load"
       THEN /\ ret' = Call("AddBlock", id, "io")
            /\ UNCHANGED <<data, caches>>
       ELSE IF ~HasSummary(caches, data, pid)
       THEN /\ ret' = Call("AddBlock", id, ErrParentMissing)
            /\ UNCHANGED <<data, caches>>
       ELSE LET c1 == GetBlockSummaryCache(caches, data, pid)
                indexRoot == indexBlock(SummaryOf(caches, data, pid).indexRoot, newBlock)
                steps == SaveSteps(newBlock, receipts, indexRoot)
            IN IF fault.at = "index"
               THEN /\ ret' = Call("AddBlock", id, "io")
                    /\ caches' = c1
                    /\ UNCHANGED data
               ELSE /\ fault \in Faults(steps)
                    /\ caches' = SaveBlockCache(c1, steps, fault)
                    /\ IF fault.at = "none"
                       THEN LET d1 == SaveBlockData(data, steps, fault)
                            IN /\ data' = WriteBranchHead(d1, id, pid)
                               /\ ret' = Call("AddBlock", id, "nil")
                       ELSE /\ data' = SaveBlockData(data, steps, fault)
                            /\ ret' = Call("AddBlock", id, "io")
    /\ added' = IF ret'.out = "nil" THEN Put(added, id, receipts) ELSE added

\* setBestBlock storing the best block before the write of its id
setBestBlockStoreFirst(b, fault) ==
    /\ best' = b
    /\ IF fault = "put"
       THEN /\ UNCHANGED props
            /\ ret' = Call("SetBestBlockID", b.id, "io")
       ELSE /\ props' = b.id
            /\ ret' = Call("SetBestBlockID", b.id, "nil")

\* Repository.setBestBlock
setBestBlock(b, fault) ==
    IF fault = "put"
    THEN /\ UNCHANGED <<props, best>>
         /\ ret' = Call("SetBestBlockID", b.id, "io")
    ELSE /\ props' = b.id
         /\ best' = b
         /\ ret' = Call("SetBestBlockID", b.id, "nil")

\* Signal.Broadcast: every waiter there is gets the signal
Broadcast(w) == [i \in 1..Len(w) |-> TRUE]

\* Repository.SetBestBlockID
SetBestBlockID(id, fault) ==
    LET b == GetBlockRes(caches, data, id)
    IN
    /\ caches' = GetBlockCache(caches, data, id)
    /\ UNCHANGED <<blocks, data, added>>
    /\ IF b.err # "nil"
       THEN /\ ret' = Call("SetBestBlockID", id, b.err)
            /\ UNCHANGED <<props, best>>
       ELSE setBestBlock(b.val, fault)
    /\ waiters' = IF ret'.out = "nil" THEN Broadcast(waiters) ELSE waiters

\* Repository.BestBlock
BestBlock == best

\* Repository.NewTicker
NewTicker ==
    /\ Len(waiters) < MaxWaiters
    /\ waiters' = Append(waiters, FALSE)
    /\ ret' = NoCall
    /\ UNCHANGED <<blocks, data, props, best, caches, added, faults, packerVars, bftVars, poolVars, roleVars, raceVars, timerVars>>

\* a waiter receives the signal from its channel
WaitTick(w) ==
    /\ waiters[w]
    /\ waiters' = [waiters EXCEPT ![w] = FALSE]
    /\ ret' = NoCall
    /\ UNCHANGED <<blocks, data, props, best, caches, added, faults, packerVars, bftVars, poolVars, roleVars, raceVars, timerVars>>

(***************************************************************************)
(* The calls the model makes.                                              *)
(***************************************************************************)
IDs == {b.id : b \in blocks}

\* the least id of number n that no block built so far has
FreshID(n) ==
    MakeID(n, CHOOSE t \in 1..(Width - 1) :
                /\ MakeID(n, t) \notin IDs \cup {ForeignID}
                /\ \A s \in 1..(t - 1) : MakeID(n, s) \in IDs \cup {ForeignID})

TxBlocks == {b \in blocks : Len(b.txs) > 0}

\* the timestamp of the block with this id: of a block never seen, the epoch
TimestampOf(id) == IF id \in IDs THEN (CHOOSE b \in blocks : b.id = id).ts ELSE 0

\* the blocks a caller may offer: one built before (one added before only
\* where again is set), or, while fewer than maxBlocks are built, a new one on
\* any block built before or on a block the repository has never seen, its
\* timestamp later than its parent's by one block interval and by up to
\* maxSkip more; at most maxTxBlocks blocks carry transactions
Offers(maxBlocks, maxTxBlocks, maxSkip, again) ==
    {b \in blocks : again \/ b.id \notin DOMAIN added} \cup
    IF Cardinality(blocks) > maxBlocks THEN {}
    ELSE {MakeBlock(FreshID(Number(p) + 1), p, n, TimestampOf(p) + k * BlockInterval) :
            p \in IDs \cup {ForeignID},
            n \in {0} \cup (IF Cardinality(TxBlocks) < maxTxBlocks THEN {MaxTxs} ELSE {}),
            k \in 1..(1 + maxSkip)}

\* the receipts of a block: one for each of its transactions
ReceiptsFor(b) == ReceiptsOf(b.id, Len(b.txs))

\* the receipts a caller may pass with block b: one for each transaction, or,
\* where any is allowed, one more or one fewer than that
ReceiptsOffers(b, any) ==
    {ReceiptsFor(b)} \cup
    IF ~any THEN {}
    ELSE {ReceiptsOf(b.id, IF Len(b.txs) = 0 THEN 1 ELSE Len(b.txs) - 1)}

\* AddBlock on any block offered, meeting any of the faults named
DoAddBlock(maxBlocks, maxTxBlocks, anyReceipts, faultsAt, maxSkip, again) ==
    \E b \in Offers(maxBlocks, maxTxBlocks, maxSkip, again) :
        \E receipts \in ReceiptsOffers(b, anyReceipts) :
            \E fault \in Faults(SaveSteps(b, receipts, <<>>)) :
                /\ fault.at \in faultsAt
                /\ fault.at \in {"put", "commit"} => faults < MaxFaults
                /\ faults' = IF fault.at \in {"put", "commit"}
                             THEN faults + 1 ELSE faults
                /\ AddBlock(b, receipts, fault)
                /\ UNCHANGED <<packerVars, bftVars, poolVars, roleVars, raceVars, timerVars>>

\* SetBestBlockID on any id, the write of the best id failing or not
DoSetBestBlockID(faultsAt) ==
    \E id \in IDs \cup {ForeignID} : \E fault \in faultsAt :
        /\ fault # "none" => faults < MaxFaults
        /\ faults' = IF fault # "none" THEN faults + 1 ELSE faults
        /\ SetBestBlockID(id, fault)
        /\ UNCHANGED <<packerVars, bftVars, poolVars, roleVars, raceVars, timerVars>>

Read(c) ==
    /\ caches' = c
    /\ ret' = NoCall
    /\ UNCHANGED <<blocks, data, props, best, waiters, added, faults, packerVars, bftVars, poolVars, roleVars, raceVars, timerVars>>

GetBlockSummary == \E id \in IDs : Read(GetBlockSummaryCache(caches, data, id))

GetBlockTransactions == \E id \in IDs : Read(GetBlockTransactionsCache(caches, data, id))

GetBlockReceipts == \E id \in IDs : Read(GetBlockReceiptsCache(caches, data, id))

GetBlockBackerSignatures ==
    \E id \in IDs : Read(GetBlockBackerSignaturesCache(caches, data, id))

GetBlock == \E id \in IDs : Read(GetBlockCache(caches, data, id))

IfConflict ==
    \E b1 \in IDs, b2 \in IDs :
        /\ caches' = IfConflictCache(caches, data, b1, b2)
        /\ ret' = [op |-> "IfConflict", id |-> b1, id2 |-> b2,
                   out |-> IF IfConflictRes(caches, data, b1, b2) THEN "true" ELSE "false"]
        /\ UNCHANGED <<blocks, data, props, best, waiters, added, faults, packerVars, bftVars, poolVars, roleVars, raceVars, timerVars>>

\* the result of a call that returns branches
Branches(op, id, res) ==
    [op |-> op, id |-> id, id2 |-> ZeroID, out |-> res.err, branches |-> res.val]

GetBranchesByID ==
    \E id \in IDs \cup {ForeignID} :
        /\ caches' = LoadSummaries(caches, data, loadBranchHeads(data, Number(id)))
        /\ ret' = Branches("GetBranchesByID", id, GetBranchesByIDRes(caches, data, id))
        /\ UNCHANGED <<blocks, data, props, best, waiters, added, faults, packerVars, bftVars, poolVars, roleVars, raceVars, timerVars>>

\* the timestamps asked for: before genesis, on and between the slots of the
\* blocks, the greatest one, and one whose distance from genesis in block
\* intervals does not fit uint32
Stamps ==
    {k * BlockInterval + e : k \in 0..(2 * MaxBlocks + 3), e \in {0, BlockInterval - 1}}
        \cup {Uint64 - 1, GenesisTimestamp + Uint32 * BlockInterval}

GetBranchesByTimestamp ==
    \E ts \in Stamps :
        /\ caches' = LoadSummaries(caches, data, loadBranchHeads(data, MinNum(ts)))
        /\ ret' = Branches("GetBranchesByTimestamp", ts,
                           GetBranchesByTimestampRes(caches, data, ts))
        /\ UNCHANGED <<blocks, data, props, best, waiters, added, faults, packerVars, bftVars, poolVars, roleVars, raceVars, timerVars>>

\* the keys under which the cache of a kind holds records of block id
KeysOf(kind, id) ==
    IF kind \in {"txs", "receipts"}
    THEN {k \in DOMAIN caches[kind] : k[1] = id}
    ELSE {k \in DOMAIN caches[kind] : k = id}

\* a cache, which is a bounded LRU cache, drops what it holds of one block to
\* make room for the records of blocks outside the model
Evict ==
    \E kind \in {"summaries", "txs", "receipts", "bss"} :
        \E id \in IDs \cup {ForeignID} :
            /\ KeysOf(kind, id) # {}
            /\ caches' = [caches EXCEPT ![kind] =
                            [k \in (DOMAIN caches[kind]) \ KeysOf(kind, id) |->
                                caches[kind][k]]]
            /\ ret' = NoCall
            /\ UNCHANGED <<blocks, data, props, best, waiters, added, faults, packerVars, bftVars, poolVars, roleVars, raceVars, timerVars>>

\* NewRepository on an empty database: genesis is indexed, saved and made best
EmptyCaches ==
    [summaries |-> Empty, txs |-> Empty, receipts |-> Empty, bss |-> Empty]

EmptyData ==
    [summaries |-> Empty, txs |-> Empty, receipts |-> Empty, bss |-> Empty,
     heads |-> Empty]

GenesisSteps == SaveSteps(GenesisBlock, <<>>, indexBlock(<<>>, GenesisBlock))

NoFault == [at |-> "none", n |-> 0]

AllFaults == {"none", "load", "index", "put", "commit"}

RepoInit ==
    /\ blocks = {GenesisBlock}
    /\ data = SaveBlockData(EmptyData, GenesisSteps, NoFault)
    /\ caches = SaveBlockCache(EmptyCaches, GenesisSteps, NoFault)
    /\ props = GenesisID
    /\ best = GenesisBlock
    /\ waiters = <<>>
    /\ ret = NoCall
    /\ added = Put(Empty, GenesisID, <<>>)
    /\ faults = 0

Reads ==
    \/ GetBlockSummary
    \/ GetBlockTransactions
    \/ GetBlockReceipts
    \/ GetBlockBackerSignatures
    \/ GetBlock

(***************************************************************************)
(* packerLoop.  One action is one iteration of the loop: the branch of the *)
(* select taken, run to the continue or to the end of the branch.          *)
(***************************************************************************)
\* the signer that this node is, and the signers there are
Self == 0

Signers == 0..CommitteeSize

\* the ids that the best block takes, in the order it takes them
Heads == 0..MaxHeads

\* the starts of the rounds, and the times the clock shows: the start of each
\* round and the second after it
Slots == {r * BlockInterval : r \in 0..MaxRounds}

Times == {r * BlockInterval + d : r \in 0..(MaxRounds + 1), d \in {0, 1}}

\* flow = nil
NoFlow == [fid |-> 0, parent |-> 0, when |-> 0, eds |-> {}, proposed |-> FALSE]

\* lbs = nil
NoSummary == [parent |-> 0, when |-> 0, leader |-> 0, none |-> TRUE]

MakeSummary(parent, when, leader) ==
    [parent |-> parent, when |-> when, leader |-> leader, none |-> FALSE]

\* packer.Schedule: an error (no flow), or a new flow on the parent given whose
\* slot is not over at the time given
Schedule(parent, t) ==
    {NoFlow} \cup
    IF Cardinality(scheduled) >= MaxFlows THEN {}
    ELSE {[fid |-> Cardinality(scheduled) + 1, parent |-> parent, when |-> w,
           eds |-> {}, proposed |-> FALSE] : w \in {x \in Slots : x + BlockInterval > t}}

\* flow.AddEndoresement: the endorsement is inserted unless its signer has one
\* in the flow already
AddEndoresement(f, ed) == [f EXCEPT !.eds = f.eds \cup {ed.signer}]

\* flow.NumOfEndorsements
NumOfEndorsements(f) == Cardinality(f.eds)

\* Consensus.ValidateBlockSummary: the parent is the best block and the
\* timestamp is the start of the round that the time given lies in
ValidateBlockSummary(bs, bestHeader, t) ==
    /\ ~bs.none
    /\ bs.parent = bestHeader
    /\ bs.when = (t \div BlockInterval) * BlockInterval

\* Consensus.ValidateEndorsement: the proof of the endorsement verifies
ValidateEndorsement(ed, bestHeader, t) == ed.valid

\* the endorsements that arrive
Endorsements == [signer : Signers, valid : BOOLEAN]

\* the block summaries that arrive
Summaries == {MakeSummary(p, w, l) : p \in Heads, w \in Slots, l \in {1, 2}}

\* the flow and the flag as the loop leaves them once Pack has succeeded
ResetFlowKeep(f) == [flow |-> f, activated |-> TRUE]

ResetFlow(f) == [flow |-> NoFlow, activated |-> FALSE]

\* what the loop did in one pass: the calls it made (propose, endorse,
\* insert, pack, stage, commitBlock, fork) and the ones that failed
\* (stageErr, commitErr), on which flow, at what time, with what best block
\* and with what flag on entry
Did(acts, f) ==
    IF acts = {}
    THEN [acts |-> {}, f |-> NoFlow, t |-> 0, best |-> 0, activated |-> FALSE]
    ELSE [acts |-> acts, f |-> f, t |-> now, best |-> bestID, activated |-> activated]

\* the summaries endorsed that a later endorsement can still meet in its
\* round: those on the best block whose slot has not been over for a round
Live(bestHeader, t) ==
    {s \in endorsed : s.parent = bestHeader /\ s.when + BlockInterval >= t}

\* the summaries endorsed once the one for summary bs is signed
Endorse(bs) == Live(bestID, now) \cup {bs}

\* case <-ticker.C, from the check of the best block on, for the flow f
TickOn(f) ==
    IF f.parent # bestID
    THEN /\ flow' = NoFlow
         /\ last' = Did({}, f)
         /\ UNCHANGED <<activated, lbs, endorsed>>
    ELSE IF now < f.when
    THEN /\ flow' = f
         /\ last' = Did({}, f)
         /\ UNCHANGED <<activated, lbs, endorsed>>
    ELSE IF now > f.when + BlockInterval
    THEN /\ flow' = NoFlow
         /\ activated' = FALSE
         /\ last' = Did({}, f)
         /\ UNCHANGED <<lbs, endorsed>>
    ELSE \E sealed \in BOOLEAN :
            IF ~sealed
            THEN /\ flow' = NoFlow
                 /\ activated' = FALSE
                 /\ last' = Did({}, f)
                 /\ UNCHANGED <<lbs, endorsed>>
            ELSE /\ activated' = TRUE
                 /\ lbs' = MakeSummary(f.parent, f.when, Self)
                 /\ \E endorses \in BOOLEAN :
                        IF endorses
                        THEN /\ flow' = AddEndoresement([f EXCEPT !.proposed = TRUE],
                                                        [signer |-> Self, valid |-> TRUE])
                             /\ endorsed' = Endorse(lbs')
                             /\ last' = Did({"propose", "endorse"}, flow')
                        ELSE /\ flow' = [f EXCEPT !.proposed = TRUE]
                             /\ last' = Did({"propose"}, flow')
                             /\ UNCHANGED endorsed

\* case <-ticker.C
Tick ==
    /\ ~halted
    /\ UNCHANGED <<now, bestID, packed, committed, halted>>
    /\ IF flow # NoFlow /\ activated
       THEN /\ last' = Did({}, flow)
            /\ UNCHANGED <<flow, activated, lbs, scheduled, endorsed>>
       ELSE IF flow # NoFlow
       THEN TickOn(flow) /\ UNCHANGED scheduled
       ELSE \E f \in Schedule(bestID, now) :
                IF f = NoFlow
                THEN /\ last' = Did({}, flow)
                     /\ UNCHANGED <<flow, activated, lbs, scheduled, endorsed>>
                ELSE TickOn(f) /\ scheduled' = scheduled \cup {f.fid}

\* case ev := <-newBlockSummaryCh
NewBlockSummary(bs) ==
    /\ ~halted
    /\ UNCHANGED <<flow, activated, now, bestID, scheduled, packed, committed, halted>>
    /\ IF ~lbs.none /\ ValidateBlockSummary(lbs, bestID, now)
       THEN /\ last' = Did({}, flow)
            /\ UNCHANGED <<lbs, endorsed>>
       ELSE IF ~ValidateBlockSummary(bs, bestID, now)
       THEN /\ lbs' = NoSummary
            /\ last' = Did({}, flow)
            /\ UNCHANGED endorsed
       ELSE /\ lbs' = bs
            /\ \E endorses \in BOOLEAN :
                  IF endorses
                  THEN endorsed' = Endorse(bs) /\ last' = Did({"endorse"}, flow)
                  ELSE UNCHANGED endorsed /\ last' = Did({}, flow)

\* case ev := <-newEndorsementCh, from flow.Pack on
PackAndCommit(f) ==
    \E packs \in BOOLEAN :
        IF ~packs
        THEN /\ flow' = NoFlow
             /\ last' = Did({"insert", "pack"}, f)
             /\ UNCHANGED <<activated, bestID, packed, committed, halted>>
        ELSE /\ packed' = [packed EXCEPT ![f.fid] = @ + 1]
             /\ flow' = ResetFlow(f).flow
             /\ activated' = ResetFlow(f).activated
             /\ committed' = [committed EXCEPT ![f.fid] = @ + 1]
             /\ \E stages \in BOOLEAN, commits \in BOOLEAN :
                    LET acts == {"insert", "pack", "stage", "commitBlock"}
                                    \cup (IF stages THEN {} ELSE {"stageErr"})
                    IN IF ~commits
                       THEN /\ halted' = TRUE
                            /\ last' = Did(acts \cup {"commitErr"}, f)
                            /\ UNCHANGED bestID
                       ELSE /\ UNCHANGED halted
                            /\ last' = Did(acts \cup {"fork"}, f)
                            /\ bestID' \in {bestID, IF bestID < MaxHeads
                                                    THEN bestID + 1 ELSE bestID}

\* case ev := <-newEndorsementCh, where thor.CommitteeSize is size
NewEndorsementOf(ed, size) ==
    /\ ~halted
    /\ UNCHANGED <<lbs, now, scheduled>>
    /\ IF flow = NoFlow \/ ~activated
       THEN /\ last' = Did({}, flow)
            /\ UNCHANGED <<flow, activated, bestID, packed, committed, halted>>
       ELSE IF flow.parent # bestID
       THEN /\ flow' = NoFlow
            /\ activated' = FALSE
            /\ last' = Did({}, flow)
            /\ UNCHANGED <<bestID, packed, committed, halted>>
       ELSE IF now < flow.when
       THEN /\ last' = Did({}, flow)
            /\ UNCHANGED <<flow, activated, bestID, packed, committed, halted>>
       ELSE IF now > flow.when + BlockInterval
       THEN /\ flow' = NoFlow
            /\ activated' = FALSE
            /\ last' = Did({}, flow)
            /\ UNCHANGED <<bestID, packed, committed, halted>>
       ELSE IF ~ValidateEndorsement(ed, bestID, now)
       THEN /\ last' = Did({}, flow)
            /\ UNCHANGED <<flow, activated, bestID, packed, committed, halted>>
       ELSE LET f == AddEndoresement(flow, ed)
            IN IF NumOfEndorsements(f) < size
               THEN /\ flow' = f
                    /\ last' = Did({"insert"}, f)
                    /\ UNCHANGED <<activated, bestID, packed, committed, halted>>
               ELSE PackAndCommit(f)
    /\ endorsed' = Live(bestID', now)

\* case ev := <-newEndorsementCh
NewEndorsement(ed) == NewEndorsementOf(ed, CommitteeSize)

\* a committee of one member, the smallest that thor.CommitteeSize allows
OneMember == 1

\* a block that another node produced becomes the best block
BestChanges ==
    /\ bestID < MaxHeads
    /\ bestID' = bestID + 1
    /\ last' = IF halted THEN last ELSE Did({}, flow)
    /\ endorsed' = Live(bestID + 1, now)
    /\ UNCHANGED <<flow, activated, lbs, now, scheduled, packed, committed, halted>>

\* the clock moves on to the next of its times
TimePasses ==
    /\ \E t \in Times : t > now
    /\ now' = CHOOSE t \in Times : t > now /\ \A u \in Times : u > now => t <= u
    /\ endorsed' = Live(bestID, now')
    /\ last' = IF halted THEN last ELSE Did({}, flow)
    /\ UNCHANGED <<flow, activated, lbs, bestID, scheduled, packed, committed, halted>>

PackerInit ==
    /\ flow = NoFlow
    /\ activated = FALSE
    /\ lbs = NoSummary
    /\ now = 0
    /\ bestID = 0
    /\ scheduled = {}
    /\ packed = [f \in 1..MaxFlows |-> 0]
    /\ committed = [f \in 1..MaxFlows |-> 0]
    /\ halted = FALSE
    /\ endorsed = {}
    /\ last = Did({}, NoFlow)

(***************************************************************************)
(* The finality tracker.  Update is called once for each block of one      *)
(* chain, parent before child, after the block has become the best block.  *)
(* The block of number n of that chain has the id MakeID(n, 1).            *)
(***************************************************************************)
\* the state after NewConsensus on genesis
ZeroState == [NV |-> ZeroID, PP |-> ZeroID, PC |-> ZeroID, CM |-> ZeroID, FN |-> ZeroID]

\* a block as Update reads it: its id, whether its header's NV is the value of
\* GenNVForFirstBlock (the block is the first of a view) or the tracked NV (it
\* goes on with the view of its parent), the signers of its endorsements, and
\* its header's CM
MakeHead(n, first, signers, cm) ==
    [id |-> MakeID(n, 1), first |-> first, signers |-> signers, cm |-> cm]

\* newView: the view of the chain that ends at b, anchored at number(b.NV),
\* where v is the view of the chain that ends at the parent of b
newView(v, b) ==
    IF b.first
    THEN [anchor |-> b.id, signers |-> b.signers]
    ELSE [anchor |-> v.anchor, signers |-> v.signers \cup b.signers]

\* view.hasQCForNV: the signatures of the view are as many as the committee
hasQCForNV(v) == Cardinality(v.signers) >= CommitteeSize

\* the head is the first block of a view: its header says so, or the view of
\* its parent had quorum before it
StartsView(v, b) == b.first \/ hasQCForNV(v)

\* the newer of two ids by block number, the second one on a tie
Newer(x, y) == IF Number(x) > Number(y) THEN x ELSE y

\* NV left as it is at the first block of a view
StartViewNone(s, b) == s

\* the head is the first block of a view: NV becomes its id
StartView(s, b) == [s EXCEPT !.NV = b.id]

\* the shift of the certificates that moves NV as well
ShiftNV(s, b) ==
    [NV |-> b.id,
     PP |-> s.NV,
     PC |-> s.PP,
     CM |-> Newer(s.PC, s.CM),
     FN |-> IF s.PC # ZeroID THEN Newer(s.PC, s.FN) ELSE s.FN]

\* the head completes the quorum of its view: PP <- NV, PC <- PP, CM <- PC,
\* FN <- the new CM if that is not zero; CM and FN never go to an older block
Shift(s, b) ==
    [NV |-> s.NV,
     PP |-> s.NV,
     PC |-> s.PP,
     CM |-> Newer(s.PC, s.CM),
     FN |-> IF s.PC # ZeroID THEN Newer(s.PC, s.FN) ELSE s.FN]

\* the view lacks quorum: NV follows the anchor of the view
Track(s, v) == [s EXCEPT !.NV = v.anchor]

\* a CM carried by the head that replaces the tracked one whatever its number
ObserveAny(s, cm) == [s EXCEPT !.CM = cm]

\* the CM that the header of the head carries replaces the tracked one if it
\* is newer
Observe(s, cm) == [s EXCEPT !.CM = Newer(cm, s.CM)]

\* Consensus.Update, as a function of the state, the view of the parent and
\* the head
UpdateState(s, v, b) ==
    Observe(IF StartsView(v, b) THEN StartView(s, b)
            ELSE IF hasQCForNV(newView(v, b)) THEN Shift(s, b)
            ELSE Track(s, newView(v, b)),
            b.cm)

\* the nodes that sign endorsements: as many as make a quorum
Backers == 1..CommitteeSize

\* the heads that may follow the head fed last: the first block of a view or
\* not, signed by any of the backers, carrying no CM or as CM the first block
\* of the chain, its parent or the parent of its parent
NextHeads(h) ==
    LET n == Number(h.id) + 1
    IN {MakeHead(n, first, signers, cm) :
            first \in IF n = 1 THEN {TRUE} ELSE BOOLEAN,
            signers \in SUBSET Backers,
            cm \in {ZeroID} \cup {MakeID(k, 1) : k \in {1, n - 2, n - 1} \cap 1..(n - 1)}}

\* Consensus.Update
Update(b) ==
    /\ head' = b
    /\ view' = IF StartsView(view, b)
               THEN [anchor |-> b.id, signers |-> b.signers]
               ELSE newView(view, b)
    /\ state' = UpdateState(state, view, b)
    /\ fed' = [quorums |-> IF hasQCForNV(newView(view, b))
                           THEN fed.quorums + 1 ELSE fed.quorums,
               shifts |-> IF ~StartsView(view, b) /\ hasQCForNV(newView(view, b))
                          THEN fed.shifts + 1 ELSE fed.shifts,
               carried |-> fed.carried \/ b.cm # ZeroID]

DoUpdate ==
    /\ Number(head.id) < MaxChain
    /\ \E b \in NextHeads(head) : Update(b)

\* the chain, of the two of the model, that a block other than genesis is on:
\* the chain fed first or the fork that leaves it at genesis
ChainOf(id) == id % Width

\* Repository.IfConflict on two blocks of these chains: neither is genesis
\* and they are on different chains
Conflicts(b1, b2) ==
    /\ Number(b1) > 0
    /\ Number(b2) > 0
    /\ ChainOf(b1) # ChainOf(b2)

\* PP kept whatever branch the head is on
UnlockNever(s, b) == s

\* the head is on a branch that conflicts with PP: PP is given up
Unlock(s, b) ==
    IF s.PP # ZeroID /\ Conflicts(s.PP, b.id) THEN [s EXCEPT !.PP = ZeroID] ELSE s

\* the heads that may follow a head of number n - 1 on the chain c in a run
\* with a fork: the first block of a view or not, signed by no backer or by
\* all of them, carrying no CM
ForkHeads(n, c) ==
    {[MakeHead(n, first, signers, ZeroID) EXCEPT !.id = MakeID(n, c)] :
        first \in IF n = 1 THEN {TRUE} ELSE BOOLEAN,
        signers \in {{}, Backers}}

\* Consensus.Update with head b, where v is the view of the chain that ends
\* at the parent of b
UpdateOn(v, b) ==
    /\ head' = b
    /\ view' = IF StartsView(v, b)
               THEN [anchor |-> b.id, signers |-> b.signers]
               ELSE newView(v, b)
    /\ state' = UpdateState(Unlock(state, b), v, b)
    /\ fed' = [quorums |-> IF hasQCForNV(newView(v, b))
                           THEN fed.quorums + 1 ELSE fed.quorums,
               shifts |-> IF ~StartsView(v, b) /\ hasQCForNV(newView(v, b))
                          THEN fed.shifts + 1 ELSE fed.shifts,
               carried |-> fed.carried \/ b.cm # ZeroID]

\* the next block of the chain of the head becomes the best block and is fed
\* to Update; the fork is fed as far as a chain that overtakes the first one
FeedNext ==
    /\ Number(head.id) < (IF ChainOf(head.id) = 1 THEN MaxChain - 1 ELSE MaxChain + 3)
    /\ \E b \in ForkHeads(Number(head.id) + 1, ChainOf(head.id)) : UpdateOn(view, b)

\* the best block switches to the fork, and the first block of the fork, a
\* child of genesis, is fed to Update
SwitchFork ==
    /\ Number(head.id) > 0
    /\ ChainOf(head.id) = 1
    /\ \E b \in ForkHeads(1, 2) :
            UpdateOn([anchor |-> MakeID(0, 1), signers |-> {}], b)

BftInit ==
    /\ state = ZeroState
    /\ head = MakeHead(0, TRUE, {}, ZeroID)
    /\ view = [anchor |-> MakeID(0, 1), signers |-> {}]
    /\ fed = [quorums |-> 0, shifts |-> 0, carried |-> FALSE]

(***************************************************************************)
(* The transactions of a proposal.                                         *)
(***************************************************************************)
\* what flow.Adopt returns: nil, an error that IsGasLimitReached holds of, one
\* that IsTxNotAdoptableNow holds of, or another error
AdoptErrors == {"nil", "gas limit reached", "not adoptable now", "bad tx"}

\* the switch on the error of flow.Adopt without its second case
ToRemoveNotGas(err) == err # "gas limit reached"

\* the switch on the error of flow.Adopt: the default case appends the
\* transaction to txsToRemove
ToRemove(err) == err \notin {"gas limit reached", "not adoptable now"}

\* the switch on the error of flow.Adopt: no case leaves the loop over the
\* executables, the break of the first case ending the switch only
LeavesLoop(err) == FALSE

\* the loop over txPool.Executables(): the transactions passed to flow.Adopt
\* in their order, each with the error that errs names for it
RECURSIVE AdoptLoop(_, _)
AdoptLoop(txs, errs) ==
    IF txs = <<>> THEN <<>>
    ELSE LET tx == Head(txs)
         IN <<[tx |-> tx, err |-> errs[tx]]>>
                \o (IF LeavesLoop(errs[tx]) THEN <<>> ELSE AdoptLoop(Tail(txs), errs))

\* txsToRemove when the loop is over
TxsToRemove(tried) == {tried[i].tx : i \in {j \in 1..Len(tried) : ToRemove(tried[j].err)}}

NotAdopting == [called |-> FALSE, found |-> {}, tried |-> <<>>, doneAt |-> 0, err |-> "nil"]

\* Node.packTxSetAndBlockSummary: the executables are tried in their order,
\* flow.PackTxSetAndBlockSummary succeeds or fails, and the deferred function
\* removes txsToRemove from the pool
packTxSetAndBlockSummary ==
    \E executables \in SUBSET txPool :
        \E errs \in [executables -> AdoptErrors], err \in {"nil", "sign"},
           doneAt \in 0..Cardinality(executables) :
            \* the select receives from done when doneAt executables have been
            \* tried (never in the loop when that is all of them), and its
            \* break ends the select only: the loop is the same
            LET tried == AdoptLoop(InKeyOrder(executables), errs)
            IN /\ adopting' = [called |-> TRUE, found |-> txPool, tried |-> tried,
                               doneAt |-> doneAt, err |-> err]
               /\ txPool' = txPool \ TxsToRemove(tried)
               /\ UNCHANGED <<repoVars, packerVars, bftVars, roleVars, raceVars, timerVars>>

\* a transaction comes into the pool
AddTx ==
    \E tx \in (1..MaxPool) \ txPool :
        /\ txPool' = txPool \cup {tx}
        /\ adopting' = NotAdopting
        /\ UNCHANGED <<repoVars, packerVars, bftVars, roleVars, raceVars, timerVars>>

PoolInit ==
    /\ txPool = {}
    /\ adopting = NotAdopting

(***************************************************************************)
(* The roles of a round (consensus/role.go).  The verifiable random        *)
(* function and the hash are fixed functions: the proof of a key over a    *)
(* seed is the pair of the two, and its hash is a number computed from     *)
(* them.                                                                   *)
(***************************************************************************)
\* math.MaxUint32, scaled down as Uint32 is
MaxUint32 == Uint32 - 1

\* the private keys; sk.Prove returns an error for BadKey
BadKey == 0

PrivateKeys == 0..MaxKeys

Seeds == 0..MaxSeed

\* the public key of a private key, and a key that belongs to no private key
PublicKeyOf(sk) == 2 * sk + 1

RandKey == 0

PublicKeys == {PublicKeyOf(sk) : sk \in PrivateKeys \ {BadKey}} \cup {RandKey}

\* sk.Prove(seed) where it returns no error
Prove(sk, seed) == [by |-> sk, over |-> seed]

\* a proof that no key gives over any seed
RandProof == [by |-> BadKey, over |-> 0]

\* pk.Verify(proof, seed) of the vrf package
Verify(pk, proof, seed) ==
    /\ proof.by # BadKey
    /\ pk = PublicKeyOf(proof.by)
    /\ proof.over = seed

\* binary.BigEndian.Uint64(thor.Blake2b(proof[:]).Bytes()): the first eight
\* bytes of the hash of the proof, as an unsigned integer of 64 bits
HashUint64(proof) == (proof.over * 3 + proof.by * 7) % Uint64

\* the threshold with the quotient rounded up
getCommitteeThresholdCeil ==
    (((((MaxUint32 \div MaxBlockProposers) + 1) * CommitteeSize) % Uint64)
        * CommitteeThresholdFactor) % Uint64

\* getCommitteeThreshold, in the arithmetic of uint64
getCommitteeThreshold ==
    ((((MaxUint32 \div MaxBlockProposers) * CommitteeSize) % Uint64)
        * CommitteeThresholdFactor) % Uint64

\* the test of IsCommittee with a strict comparison
PassesStrictly(h) == h < getCommitteeThreshold

\* the test of IsCommittee on the number taken from the hash of the proof
Passes(h) == h <= getCommitteeThreshold

NilProof == [proof |-> RandProof, isNil |-> TRUE]

\* IsCommittee(sk, seed)
IsCommitteeRes(sk, seed) ==
    IF sk = BadKey
    THEN [ret |-> NilProof, err |-> "prove"]
    ELSE IF Passes(HashUint64(Prove(sk, seed)))
    THEN [ret |-> [proof |-> Prove(sk, seed), isNil |-> FALSE], err |-> "nil"]
    ELSE [ret |-> NilProof, err |-> "nil"]

\* ValidateEndorsement with the test of the threshold before the
\* verification of the proof
ValidateEndorsementThresholdFirst(proof, pk, seed) ==
    IF ~Passes(HashUint64(proof)) THEN "errNotCommittee"
    ELSE IF ~Verify(pk, proof, seed) THEN "errVrfProof"
    ELSE "nil"

\* Consensus.ValidateEndorsement(ed, pk), for an endorsement that carries
\* proof on a summary of a round whose seed is seed
ValidateEndorsementRes(proof, pk, seed) ==
    IF ~Verify(pk, proof, seed) THEN "errVrfProof"
    ELSE IF ~Passes(HashUint64(proof)) THEN "errNotCommittee"
    ELSE "nil"

\* the epoch number with the epochs counted from the timestamp of genesis
EpochNumberFromGenesis(t) ==
    IF t < GenesisTimestamp
    THEN [n |-> 0, err |-> "errTimestamp"]
    ELSE [n |-> ((t - GenesisTimestamp) \div (BlockInterval * EpochInterval)) % Uint32,
          err |-> "nil"]

\* Consensus.EpochNumber(t): the rounds are counted from genesis, round 0 is
\* epoch 0 and each EpochInterval rounds after it are one epoch
EpochNumberRes(t) ==
    IF t < GenesisTimestamp
    THEN [n |-> 0, err |-> "errTimestamp"]
    ELSE LET round == (t - GenesisTimestamp) \div BlockInterval
         IN [n |-> IF round = 0 THEN 0
                                ELSE (((round - 1) \div EpochInterval) + 1) % Uint32,
             err |-> "nil"]

\* the timestamps given to EpochNumber
Timestamps ==
    (GenesisTimestamp - BlockInterval)
        ..(GenesisTimestamp + BlockInterval * (MaxEpochs * EpochInterval + 2))

NoRoleCall ==
    [op |-> "none", sk |-> 0, pk |-> 0, seed |-> 0, proof |-> RandProof, t |-> 0,
     res |-> 0]

CallThreshold ==
    /\ role' = [NoRoleCall EXCEPT !.op = "getCommitteeThreshold",
                                  !.res = getCommitteeThreshold]
    /\ UNCHANGED <<repoVars, packerVars, bftVars, poolVars, raceVars, timerVars>>

CallIsCommittee ==
    \E sk \in PrivateKeys, seed \in Seeds :
        /\ role' = [NoRoleCall EXCEPT !.op = "IsCommittee", !.sk = sk, !.seed = seed,
                                      !.res = IsCommitteeRes(sk, seed)]
        /\ UNCHANGED <<repoVars, packerVars, bftVars, poolVars, raceVars, timerVars>>

\* the proofs that endorsements on a summary of the round of seed carry:
\* proofs of the keys over that seed and over another one, and a random proof
ProofsFor(seed) ==
    {Prove(sk, sd) : sk \in PrivateKeys \ {BadKey}, sd \in {seed, (seed + 1) % (MaxSeed + 1)}}
        \cup {RandProof}

CallValidateEndorsement ==
    \E seed \in Seeds, pk \in PublicKeys :
        \E proof \in ProofsFor(seed) :
            /\ role' = [NoRoleCall EXCEPT !.op = "ValidateEndorsement", !.pk = pk,
                                          !.seed = seed, !.proof = proof,
                                          !.res = ValidateEndorsementRes(proof, pk, seed)]
            /\ UNCHANGED <<repoVars, packerVars, bftVars, poolVars, raceVars, timerVars>>

CallEpochNumber ==
    \E t \in Timestamps :
        /\ role' = [NoRoleCall EXCEPT !.op = "EpochNumber", !.t = t,
                                      !.res = EpochNumberRes(t)]
        /\ UNCHANGED <<repoVars, packerVars, bftVars, poolVars, raceVars, timerVars>>

RoleInit == role = NoRoleCall

(***************************************************************************)
(* SetBestBlockID called from several goroutines.  The repository holds no *)
(* lock over setBestBlock: the Put of the id and the Store of the block    *)
(* are two steps, and steps of other goroutines come between them.         *)
(***************************************************************************)
Callers == 1..MaxCallers

NotCalling == [pc |-> "idle", b |-> GenesisBlock]

\* SetBestBlockID up to the return of GetBlock
BeginSetBestBlockID(g, id) ==
    LET b == GetBlockRes(caches, data, id)
    IN /\ callers[g].pc = "idle"
       /\ caches' = GetBlockCache(caches, data, id)
       /\ IF b.err # "nil"
          THEN /\ callers' = [callers EXCEPT ![g] = [pc |-> "returned", b |-> GenesisBlock]]
               /\ ret' = Call("SetBestBlockID", id, b.err)
          ELSE /\ callers' = [callers EXCEPT ![g] = [pc |-> "put", b |-> b.val]]
               /\ UNCHANGED ret
       /\ UNCHANGED <<blocks, data, props, best, waiters, added, faults>>
       /\ UNCHANGED <<packerVars, bftVars, poolVars, roleVars, timerVars>>

\* setBestBlock: r.props.Put(bestBlockIDKey, id)
PutBestBlockID(g) ==
    /\ callers[g].pc = "put"
    /\ props' = callers[g].b.id
    /\ callers' = [callers EXCEPT ![g].pc = "store"]
    /\ UNCHANGED <<blocks, data, best, caches, waiters, ret, added, faults>>
    /\ UNCHANGED <<packerVars, bftVars, poolVars, roleVars, timerVars>>

\* setBestBlock: r.best.Store(b), and the deferred Broadcast of the return
StoreBestBlock(g) ==
    /\ callers[g].pc = "store"
    /\ best' = callers[g].b
    /\ waiters' = Broadcast(waiters)
    /\ ret' = Call("SetBestBlockID", callers[g].b.id, "nil")
    /\ callers' = [callers EXCEPT ![g].pc = "returned"]
    /\ UNCHANGED <<blocks, data, props, caches, added, faults>>
    /\ UNCHANGED <<packerVars, bftVars, poolVars, roleVars, timerVars>>

\* the goroutine is ready for another call
Returned(g) ==
    /\ callers[g].pc = "returned"
    /\ callers' = [callers EXCEPT ![g] = NotCalling]
    /\ UNCHANGED <<repoVars, packerVars, bftVars, poolVars, roleVars, timerVars>>

\* NewRepository on the store of a repository that was closed: the best
\* block is the block read under the id kept under bestBlockIDKey
Reopen(d, p) == GetBlockRes(EmptyCaches, d, p)

RaceInit == callers = [g \in Callers |-> NotCalling]

(***************************************************************************)
(* packTxSetAndBlockSummary and its timer goroutines, statement by         *)
(* statement.  Each call makes a channel of its own without a buffer and   *)
(* starts a goroutine that sleeps and then sends on it; the only receive   *)
(* is the select at the top of the loop over the executables.              *)
(***************************************************************************)
NotPacking == [pc |-> "idle", left |-> 0, g |-> 0]

\* the call makes done and starts the goroutine, and reads the executables
StartPacking ==
    /\ packing.pc = "idle"
    /\ \E g \in 1..MaxTimers, n \in 0..MaxPool :
            /\ timers[g] = "free"
            /\ \A h \in 1..(g - 1) : timers[h] # "free"
            /\ timers' = [timers EXCEPT ![g] = "sleeping"]
            /\ packing' = [pc |-> IF n = 0 THEN "seal" ELSE "select", left |-> n, g |-> g]
    /\ UNCHANGED <<repoVars, packerVars, bftVars, poolVars, roleVars, raceVars>>

\* time.Sleep returns in the goroutine, which goes on to done <- struct{}{}
Elapse(g) ==
    /\ timers[g] = "sleeping"
    /\ timers' = [timers EXCEPT ![g] = "sending"]
    /\ UNCHANGED <<packing, repoVars, packerVars, bftVars, poolVars, roleVars, raceVars>>

\* the select: it receives if the goroutine of the call is at its send, which
\* ends the goroutine, and takes the default case otherwise; either way the
\* body goes on to flow.Adopt
Select ==
    /\ packing.pc = "select"
    /\ timers' = IF timers[packing.g] = "sending"
                 THEN [timers EXCEPT ![packing.g] = "free"]
                 ELSE timers
    /\ packing' = [packing EXCEPT !.pc = "adopt"]
    /\ UNCHANGED <<repoVars, packerVars, bftVars, poolVars, roleVars, raceVars>>

\* flow.Adopt and the switch on its error: the loop goes on to the next
\* executable if there is one
Adopt ==
    /\ packing.pc = "adopt"
    /\ packing' = [packing EXCEPT !.pc = IF packing.left = 1 THEN "seal" ELSE "select",
                                   !.left = packing.left - 1]
    /\ UNCHANGED <<timers, repoVars, packerVars, bftVars, poolVars, roleVars, raceVars>>

\* flow.PackTxSetAndBlockSummary and the return: nothing holds done any more
\* but the goroutine
Seal ==
    /\ packing.pc = "seal"
    /\ packing' = NotPacking
    /\ UNCHANGED <<timers, repoVars, packerVars, bftVars, poolVars, roleVars, raceVars>>

TimerInit ==
    /\ packing = NotPacking
    /\ timers = [g \in 1..MaxTimers |-> "free"]

Init ==
    RepoInit /\ PackerInit /\ BftInit /\ PoolInit /\ RoleInit /\ RaceInit /\ TimerInit


(***************************************************************************)
(* The repository as a store: blocks with and without transactions are     *)
(* added, read back through the caches, and dropped from the caches.       *)
(***************************************************************************)
Next ==
    \/ DoAddBlock(MaxStored, MaxTxBlocks, TRUE, {"none"}, 0, TRUE)
    \/ Reads
    \/ Evict

Spec == Init /\ [][Next]_vars

(***************************************************************************)
(* The repository as a fork tree: blocks are added on any block known.     *)
(***************************************************************************)
NextFork ==
    \/ DoAddBlock(MaxBlocks, 0, FALSE, {"none"}, 0, FALSE)
    \/ GetBlockSummary
    \/ IfConflict
    \/ GetBranchesByID
    \/ Evict

SpecFork == Init /\ [][NextFork]_vars

(***************************************************************************)
(* The best block and its ticker.                                          *)
(***************************************************************************)
NextTick ==
    \/ DoAddBlock(MaxBlocks - 1, 0, FALSE, {"none"}, 0, TRUE)
    \/ DoSetBestBlockID({"none", "put"})
    \/ NewTicker
    \/ \E w \in 1..Len(waiters) : WaitTick(w)

SpecTick == Init /\ [][NextTick]_vars

(***************************************************************************)
(* The branch heads: blocks are added on any block known, some a second    *)
(* time.                                                                   *)
(***************************************************************************)
NextBranch ==
    \/ DoAddBlock(MaxBlocks, 0, FALSE, {"none"}, 0, TRUE)
    \/ GetBranchesByID

SpecBranch == Init /\ [][NextBranch]_vars

(***************************************************************************)
(* The branches by timestamp: blocks are added on any block known, some    *)
(* after rounds without a block.                                           *)
(***************************************************************************)
NextStamp ==
    \/ DoAddBlock(MaxBlocks - 1, 0, FALSE, {"none"}, MaxSkip, FALSE)
    \/ GetBranchesByTimestamp

SpecStamp == Init /\ [][NextStamp]_vars

(***************************************************************************)
(* The repository on a storage that fails.                                 *)
(***************************************************************************)
NextFault ==
    \/ DoAddBlock(MaxFaulty, MaxTxBlocks, FALSE, AllFaults, 0, TRUE)
    \/ DoSetBestBlockID({"none", "put"})
    \/ Reads
    \/ Evict

SpecFault == Init /\ [][NextFault]_vars

(***************************************************************************)
(* The packer loop.                                                        *)
(***************************************************************************)
NextPacker ==
    \/ Tick /\ UNCHANGED <<repoVars, bftVars, poolVars, roleVars, raceVars, timerVars>>
    \/ \E bs \in Summaries : NewBlockSummary(bs) /\ UNCHANGED <<repoVars, bftVars, poolVars, roleVars, raceVars, timerVars>>
    \/ \E ed \in Endorsements : NewEndorsement(ed) /\ UNCHANGED <<repoVars, bftVars, poolVars, roleVars, raceVars, timerVars>>
    \/ BestChanges /\ UNCHANGED <<repoVars, bftVars, poolVars, roleVars, raceVars, timerVars>>
    \/ TimePasses /\ UNCHANGED <<repoVars, bftVars, poolVars, roleVars, raceVars, timerVars>>

SpecPacker == Init /\ [][NextPacker]_vars

\* the packer loop whose ticker goes on firing: case <-ticker.C is taken
\* again and again, while summaries and endorsements may or may not arrive
SpecPackerFair ==
    Init /\ [][NextPacker]_vars /\ WF_vars(Tick /\ UNCHANGED <<repoVars, bftVars, poolVars, roleVars, raceVars, timerVars>>)

(***************************************************************************)
(* The finality tracker fed with one chain.                                *)
(***************************************************************************)
NextBFT == DoUpdate /\ UNCHANGED <<repoVars, packerVars, poolVars, roleVars, raceVars, timerVars>>

\* the packer loop of a build whose thor.CommitteeSize is OneMember
NextPackerOne ==
    \/ Tick /\ UNCHANGED <<repoVars, bftVars, poolVars, roleVars, raceVars, timerVars>>
    \/ \E bs \in Summaries : NewBlockSummary(bs) /\ UNCHANGED <<repoVars, bftVars, poolVars, roleVars, raceVars, timerVars>>
    \/ \E ed \in Endorsements :
            NewEndorsementOf(ed, OneMember) /\ UNCHANGED <<repoVars, bftVars, poolVars, roleVars, raceVars, timerVars>>
    \/ BestChanges /\ UNCHANGED <<repoVars, bftVars, poolVars, roleVars, raceVars, timerVars>>
    \/ TimePasses /\ UNCHANGED <<repoVars, bftVars, poolVars, roleVars, raceVars, timerVars>>

SpecPackerOne == Init /\ [][NextPackerOne]_vars

SpecBFT == Init /\ [][NextBFT]_vars

(***************************************************************************)
(* The finality tracker fed with a chain and then with a fork of it.       *)
(***************************************************************************)
NextReorg ==
    (FeedNext \/ SwitchFork) /\ UNCHANGED <<repoVars, packerVars, poolVars, roleVars, raceVars, timerVars>>

SpecReorg == Init /\ [][NextReorg]_vars

(***************************************************************************)
(* The transaction pool under the proposals of the node.                   *)
(***************************************************************************)
NextPool == packTxSetAndBlockSummary \/ AddTx

(***************************************************************************)
(* The functions of the roles, each applied to arguments of its domain.    *)
(***************************************************************************)
NextRole == CallThreshold \/ CallIsCommittee \/ CallValidateEndorsement \/ CallEpochNumber

SpecRole == Init /\ [][NextRole]_vars

(***************************************************************************)
(* Goroutines that set the best block while blocks are added.              *)
(***************************************************************************)
NextRace ==
    \/ DoAddBlock(MaxStored, 0, FALSE, {"none"}, 0, FALSE)
    \/ \E g \in Callers, id \in IDs : BeginSetBestBlockID(g, id)
    \/ \E g \in Callers : PutBestBlockID(g)
    \/ \E g \in Callers : StoreBestBlock(g)
    \/ \E g \in Callers : Returned(g)

SpecRace == Init /\ [][NextRace]_vars

(***************************************************************************)
(* The proposals of the node and their timer goroutines.  The scheduler of *)
(* Go runs every goroutine that can take a step.                           *)
(***************************************************************************)
NextTimer ==
    \/ StartPacking
    \/ \E g \in 1..MaxTimers : Elapse(g)
    \/ Select
    \/ Adopt
    \/ Seal

SpecTimerFair ==
    /\ Init
    /\ [][NextTimer]_vars
    /\ WF_vars(StartPacking)
    /\ \A g \in 1..MaxTimers : WF_vars(Elapse(g))
    /\ WF_vars(Select)
    /\ WF_vars(Adopt)
    /\ WF_vars(Seal)

SpecPool == Init /\ [][NextPool]_vars

(***************************************************************************)
(* What the repository is to do, told from the blocks as they were built.  *)
(***************************************************************************)
\* the block built with this id
BlockOf(bs, id) == CHOOSE b \in bs : b.id = id

\* a is reached from b, both built, by following parent ids
RECURSIVE IsAncestor(_, _)
IsAncestor(a, b) ==
    LET p == BlockOf(blocks, b).parent
    IN IF p = a THEN TRUE
       ELSE IF p \notin IDs THEN FALSE
       ELSE IsAncestor(a, p)

Divergent(b1, b2) == b1 # b2 /\ ~IsAncestor(b1, b2) /\ ~IsAncestor(b2, b1)

\* no read of the repository finds a record of the block
NoRecords(c, d, id) ==
    /\ ~HasSummary(c, d, id)
    /\ GetBlockTransactionsRes(c, d, id).err # "nil"
    /\ GetBlockReceiptsRes(c, d, id).err # "nil"
    /\ GetBlockBackerSignaturesRes(c, d, id).val = <<>>
    /\ \A i \in 0..(MaxTxs - 1) :
        ~Has(c.txs, d.txs, <<id, i>>) /\ ~Has(c.receipts, d.receipts, <<id, i>>)

\* C1: for every flow that Schedule returned, flow.Pack succeeds at most
\* once and commitBlock is called at most once, and only after Pack succeeded;
\* the step in which Pack succeeds leaves the loop without a flow and not
\* activated.
C1_OnePackPerFlow ==
    /\ [](\A f \in 1..MaxFlows :
            packed[f] <= 1 /\ committed[f] <= packed[f] /\ (packed[f] > 0 => f \in scheduled))
    /\ [][packed' # packed => flow' = NoFlow /\ ~activated']_vars

\* the first flow was packed and committed, and a later flow has proposed and
\* holds an endorsement
C1_Witness ==
    /\ packed[1] = 1
    /\ committed[1] = 1
    /\ ~halted
    /\ flow.fid > 1
    /\ activated
    /\ NumOfEndorsements(flow) > 0

\* C2: in every state the best block is a block whose summary, transactions
\* and backer signatures are in the data store.
C2_BestBlockPersisted ==
    /\ best.id \in DOMAIN data.summaries
    /\ best.id \in DOMAIN data.bss
    /\ data.bss[best.id] = best.bss
    /\ \A i \in 1..Len(best.txs) :
        /\ <<best.id, i - 1>> \in DOMAIN data.txs
        /\ data.txs[<<best.id, i - 1>>] = best.txs[i]

\* the ids PP, PC, CM, FN of a state
Locks(s) == <<s.PP, s.PC, s.CM, s.FN>>

C6_IfConflict ==
    \A b1, b2 \in DOMAIN added :
        /\ IfConflictRes(caches, data, b1, b2) = Divergent(b1, b2)
        /\ IfConflictRes(caches, data, b1, b2) = IfConflictRes(caches, data, b2, b1)

\* IfConflict has answered true for two cousins at different heights
C6_Witness ==
    /\ ret.op = "IfConflict"
    /\ ret.out = "true"
    /\ {ret.id, ret.id2} \subseteq DOMAIN added
    /\ Number(ret.id) < Number(ret.id2)
    /\ Divergent(ret.id, ret.id2)

\* C7: AddBlock of a block whose parent has no summary in the repository
\* returns "parent missing" and changes neither the store (summaries,
\* transactions, receipts, backer signatures, branch heads), nor the caches,
\* nor the best block.
C7_ParentMissing ==
    [][(/\ ret'.op = "AddBlock"
        /\ ~HasSummary(caches, data, BlockOf(blocks', ret'.id).parent))
       => /\ ret'.out = "parent missing"
          /\ UNCHANGED <<data, caches, best, props, added>>]_vars

\* AddBlock has answered "parent missing" and nothing of the block is found
C7_Witness ==
    /\ ret.op = "AddBlock"
    /\ ret.out = "parent missing"
    /\ Len(BlockOf(blocks, ret.id).txs) > 0
    /\ NoRecords(caches, data, ret.id)
    /\ best = GenesisBlock

\* what GetBlock and GetBlockReceipts return for id are the block as it was
\* built and the receipts of the last AddBlock that added it
RoundTrip(id) ==
    /\ GetBlockRes(caches, data, id) = Ok(BlockOf(blocks, id))
    /\ GetBlockReceiptsRes(caches, data, id) = Ok(added[id])

\* C8, as stated: after AddBlock has added b with any receipts, GetBlock and
\* GetBlockReceipts return b and those receipts, from the caches or the store.
C8_RoundTripAnyReceipts == \A id \in DOMAIN added : RoundTrip(id)

\* C8: after AddBlock has added b with one receipt for each transaction of b,
\* GetBlock returns b's header, transactions and backer signatures and
\* GetBlockReceipts returns those receipts in their order, from the caches or,
\* after eviction, from the store.
C8_RoundTrip ==
    \A id \in DOMAIN added :
        Len(added[id]) = Len(BlockOf(blocks, id).txs) => RoundTrip(id)

\* a block with transactions was added with its receipts, and the caches hold
\* nothing of it
C8_Witness ==
    \E id \in DOMAIN added :
        /\ Len(BlockOf(blocks, id).txs) = MaxTxs
        /\ Len(added[id]) = MaxTxs
        /\ NoRecords(caches, EmptyData, id)
        /\ RoundTrip(id)

\* C9: after AddBlock has returned an error for a block never added, no read
\* finds any record of the block, in the caches or the store.
C9_AllOrNothing ==
    (ret.op = "AddBlock" /\ ret.out # "nil" /\ ret.id \notin DOMAIN added)
        => NoRecords(caches, data, ret.id)

\* C10: SetBestBlockID fails exactly if the block is not found or the write of
\* the best id fails; on success the best block is the block of that id, the
\* persisted best id is that id and every waiter is signalled; on failure the
\* best block, the persisted best id and the waiters are unchanged.
C10_SetBestBlockID ==
    [][ret'.op = "SetBestBlockID"
       => /\ (ret'.out = "nil") <=>
                (GetBlockRes(caches, data, ret'.id).err = "nil" /\ faults' = faults)
          /\ IF ret'.out = "nil"
             THEN /\ best' = BlockOf(blocks, ret'.id)
                  /\ props' = ret'.id
                  /\ waiters' = [i \in 1..Len(waiters) |-> TRUE]
             ELSE UNCHANGED <<best, props, waiters>>]_vars

\* SetBestBlockID has made a block other than genesis the best block, with
\* every ticker there may be signalled
C10_Witness ==
    /\ ret.op = "SetBestBlockID"
    /\ ret.out = "nil"
    /\ best.id = ret.id
    /\ props = ret.id
    /\ best.id # GenesisID
    /\ Len(waiters) = MaxWaiters
    /\ \A i \in 1..Len(waiters) : waiters[i]

\* the blocks stored that have no stored child
Tips ==
    {id \in DOMAIN added :
        ~\E b \in blocks : b.id \in DOMAIN added /\ b.parent = id}

\* the tips whose chain has the block
TipsOf(id) == {t \in Tips : t = id \/ IsAncestor(id, t)}

\* C11: an AddBlock that returns nil for block b with parent p: if p was a
\* recorded branch head, b is then recorded with previous head p, p is no
\* longer recorded and no GetBranchesByID returns it; otherwise b is recorded
\* with previous head zero; in both cases every other record is unchanged.
C11_BranchHeads ==
    [][(ret'.op = "AddBlock" /\ ret'.out = "nil") =>
        LET b == ret'.id
            p == BlockOf(blocks', b).parent
            old == data.heads
            new == data'.heads
        IN /\ b \in DOMAIN new
           /\ new[b] = IF p \in DOMAIN old THEN p ELSE ZeroID
           /\ DOMAIN new = ((DOMAIN old) \ {p}) \cup {b}
           /\ \A h \in (DOMAIN new) \ {b} : new[h] = old[h]
           /\ p \in DOMAIN old =>
                \A id \in IDs \cup {ForeignID} :
                    \A i \in 1..Len(GetBranchesByIDRes(caches', data', id).val) :
                        GetBranchesByIDRes(caches', data', id).val[i] # p]_vars

\* a second child of a block other than genesis has been added and heads a new
\* branch, the first child holding the record that points to the parent
C11_Witness ==
    /\ ret.op = "AddBlock"
    /\ ret.out = "nil"
    /\ ret.id \in DOMAIN data.heads
    /\ data.heads[ret.id] = ZeroID
    /\ LET p == BlockOf(blocks, ret.id).parent
       IN /\ p # GenesisID
          /\ p \notin DOMAIN data.heads
          /\ \E h \in DOMAIN data.heads : h # ret.id /\ data.heads[h] = p

C13_BranchesByTimestamp ==
    \A ts \in {x \in Stamps : x >= GenesisTimestamp} :
        GetBranchesByTimestampRes(caches, data, ts)
            = Ok(InKeyOrder({h \in DOMAIN data.heads : TimestampOf(h) > ts}))

\* the loop holds a flow whose parent is no longer the best block or whose
\* slot is over
Stale ==
    /\ flow # NoFlow
    /\ flow.parent # bestID \/ now > flow.when + BlockInterval

\* C14: whenever the loop holds a flow whose parent is no longer the best
\* block or whose slot is over, the flow is eventually discarded (flow = nil,
\* activated = false), the ticker alone being sure to fire.
C14_StaleFlowDiscarded == Stale ~> (flow = NoFlow /\ ~activated)

\* C15: the loop proposes a summary, inserts an endorsement into the flow and
\* packs a block only at times now with flow.When() <= now and
\* now < flow.When() + BlockInterval.
C15_InsideSlot ==
    last.acts \cap {"propose", "insert", "pack"} # {} =>
        /\ last.f.when <= last.t
        /\ last.t < last.f.when + BlockInterval

\* C16: the summaries that the node has signed endorsements of are at most one
\* for each round, a round being a best block and a slot.
C16_OneSummaryPerRound ==
    \A s1, s2 \in endorsed :
        (s1.parent = s2.parent /\ s1.when = s2.when) => s1 = s2

\* C17: flow.Pack is called only when the flow is activated and has proposed
\* its summary, its parent is the best block, the time is inside its slot and
\* it holds at least CommitteeSize endorsements of distinct signers.
C17_PackGuard ==
    "pack" \in last.acts =>
        /\ last.activated
        /\ last.f.proposed
        /\ last.f.parent = last.best
        /\ last.f.when <= last.t
        /\ last.t < last.f.when + BlockInterval
        /\ NumOfEndorsements(last.f) >= CommitteeSize

\* C18: once flow.Pack has succeeded, a failure of stage.Commit stops the loop
\* before commitBlock is called, and a failure of commitBlock stops it before
\* the forks are processed and the header is broadcast; nothing else stops
\* the loop.
C18_FatalPersist ==
    /\ "stageErr" \in last.acts =>
            halted /\ last.acts \cap {"commitBlock", "fork"} = {}
    /\ "commitErr" \in last.acts => halted /\ "fork" \notin last.acts
    /\ halted => last.acts \cap {"stageErr", "commitErr"} # {}

\* the transactions of the last call for which flow.Adopt returned an error
\* of the set
TriedWith(errs) ==
    {adopting.tried[i].tx : i \in {j \in 1..Len(adopting.tried) : adopting.tried[j].err \in errs}}

C20_StopsAtGasLimit ==
    adopting.called =>
        \A i \in 1..Len(adopting.tried) :
            adopting.tried[i].err = "gas limit reached" =>
                /\ i = Len(adopting.tried)
                /\ adopting.tried[i].tx \in txPool

\* C21: once the timer of packTxSetAndBlockSummary has signalled on done, no
\* further executable is passed to flow.Adopt in that call, however many
\* remain.
C21_StopsAtBudget ==
    adopting.called => Len(adopting.tried) <= adopting.doneAt

\* C22: where sk.Prove(seed) returns a proof, IsCommittee(sk, seed) returns a
\* proof if and only if the number taken from the hash of that proof is no
\* larger than the threshold; the proof returned is the one of Prove, it
\* verifies under the public key of sk and the seed, and no error comes with
\* it; otherwise IsCommittee returns no proof and no error.
C22_IsCommittee ==
    (role.op = "IsCommittee" /\ role.sk # BadKey) =>
        LET proof == Prove(role.sk, role.seed)
            elected == HashUint64(proof) <= getCommitteeThreshold
        IN /\ (~role.res.ret.isNil) <=> elected
           /\ role.res.err = "nil"
           /\ elected => /\ role.res.ret.proof = proof
                          /\ Verify(PublicKeyOf(role.sk), role.res.ret.proof, role.seed)

\* IsCommittee has returned a proof whose number is the threshold itself
C22_Witness ==
    /\ role.op = "IsCommittee"
    /\ ~role.res.ret.isNil
    /\ role.res.err = "nil"
    /\ HashUint64(role.res.ret.proof) = getCommitteeThreshold

\* the values of the number that IsCommittee takes from the hash that pass
\* its test
Passing == {h \in 0..(Uint64 - 1) : Passes(h)}

\* C23: of all the values of the number that IsCommittee takes from the hash
\* of the proof, the share that passes the test is CommitteeSize /
\* MaxBlockProposers * CommitteeThresholdFactor, up to the rounding of the
\* division (less than CommitteeSize * CommitteeThresholdFactor values, and
\* one for the comparison).
C23_MembershipRate ==
    role.op = "IsCommittee" =>
        LET expected == Uint64 * CommitteeSize * CommitteeThresholdFactor
            counted == Cardinality(Passing) * MaxBlockProposers
            rounding == MaxBlockProposers * (CommitteeSize * CommitteeThresholdFactor + 1)
        IN /\ counted <= expected + rounding
           /\ expected <= counted + rounding

FirstAfterBoundary ==
    {GenesisTimestamp + BlockInterval * k * EpochInterval + 1 : k \in 1..(MaxEpochs + 1)}

\* the timestamps at which a round starts that is the first of an epoch
\* after epoch 0
FirstOfEpoch ==
    {GenesisTimestamp + BlockInterval * (k * EpochInterval + 1) : k \in 0..(MaxEpochs + 1)}

\* C26, as stated: EpochNumber(t) returns an error for t before genesis and
\* epoch 0 for t after genesis up to genesis + BlockInterval, never
\* decreases, and goes up by one at the first timestamp strictly after
\* genesis + BlockInterval * k * EpochInterval for k >= 1, and nowhere else.
C26_EpochAsStated ==
    role.op = "EpochNumber" =>
        LET t == role.t
            before == EpochNumberRes(t - 1)
        IN /\ t < GenesisTimestamp => role.res.err # "nil"
           /\ (GenesisTimestamp < t /\ t <= GenesisTimestamp + BlockInterval)
                    => role.res = [n |-> 0, err |-> "nil"]
           /\ t > GenesisTimestamp =>
                    /\ role.res.err = "nil"
                    /\ role.res.n >= before.n
                    /\ t \in FirstAfterBoundary => role.res.n = before.n + 1
                    /\ t \notin FirstAfterBoundary => role.res.n = before.n

\* C26: EpochNumber(t) returns an error for t before genesis and epoch 0 for
\* t after genesis and before genesis + BlockInterval, never decreases, and
\* goes up by one at genesis + BlockInterval and at genesis + BlockInterval *
\* (k * EpochInterval + 1) for k >= 1, and nowhere else.
C26_Epoch ==
    role.op = "EpochNumber" =>
        LET t == role.t
            before == EpochNumberRes(t - 1)
        IN /\ t < GenesisTimestamp => role.res = [n |-> 0, err |-> "errTimestamp"]
           /\ (GenesisTimestamp < t /\ t < GenesisTimestamp + BlockInterval)
                    => role.res = [n |-> 0, err |-> "nil"]
           /\ t > GenesisTimestamp =>
                    /\ role.res.err = "nil"
                    /\ role.res.n >= before.n
                    /\ t \in FirstOfEpoch => role.res.n = before.n + 1
                    /\ t \notin FirstOfEpoch => role.res.n = before.n
           /\ (t = GenesisTimestamp + BlockInterval * (MaxEpochs * EpochInterval + 1))
                    => role.res.n = MaxEpochs + 1

\* EpochNumber has returned the number of an epoch after epoch 1 for the
\* timestamp of the first round of that epoch
C26_Witness ==
    /\ role.op = "EpochNumber"
    /\ role.res.err = "nil"
    /\ role.res.n > 1
    /\ role.t \in FirstOfEpoch

\* C27: at the top of every pass of the packer loop, activated implies that
\* there is a flow and that this flow has sealed and broadcast its block
\* summary.
C27_ActivatedHasProposed ==
    (~halted /\ activated) => (flow # NoFlow /\ flow.proposed)

C29_BestPersisted ==
    (\A g \in Callers : callers[g].pc \in {"idle", "returned"}) =>
        /\ props = BestBlock.id
        /\ Reopen(data, props) = Ok(BestBlock)

C32_TimersTerminate ==
    \A g \in 1..MaxTimers : (timers[g] = "sending") ~> (timers[g] = "free")
====
